---- MODULE Spec2Model ----
(***************************************************************************)
(* LC3IDE main window (src/main.py): the tab container, the per-tab        *)
(* modified/path dictionaries, the hover-sensitive close/indicator button  *)
(* and the file operations.                                                *)
(*                                                                         *)
(* Tab indices are 0-based as in the source.  A path is a sequence of      *)
(* one-character strings; the empty sequence stands for both None and ""   *)
(* (the source only ever tests such a path for truthiness).                *)
(***************************************************************************)
EXTENDS Integers, Sequences, FiniteSets, TLC

VARIABLES
    tabs,            \* QTabWidget pages: 0..count-1 -> [id, title, text, docPath, docDirty, btnIdx, btnShow]
    current,         \* QTabWidget.currentIndex()
    tab_modified,    \* MainWindow.tab_modified      (dict index -> bool)
    tab_file_paths,  \* MainWindow.tab_file_paths    (dict index -> path or None)
    hovered_tab,     \* CustomTabBar.hovered_tab
    disk,            \* the file system: path -> text, or NoFile
    last,            \* the handler that ran last, its inputs and what it did
    steps,  \* number of user events handled so far
    ed,              \* a CodeEditor: [blockCount, cursor, readOnly, margin, extra, glyph, op, sig]
    gutter           \* its LineNumberArea: [first, offset, hidden, rect, drawn, visited, op]

window == <<tabs, current, tab_modified, tab_file_paths, hovered_tab, disk, last, steps>>

vars == <<tabs, current, tab_modified, tab_file_paths, hovered_tab, disk, last, steps, ed, gutter>>

-----------------------------------------------------------------------------
(* Bounds and the small input sets *)

MaxTabs == 3
MaxSteps == 6
MaxLines == 11
MaxCount == 100
MaxY == 8                    \* repaint rectangles lie in the pixel rows 0..MaxY-1
MaxHidden == 1               \* blocks hidden at a time
MaxBlocks == 5               \* lines of the documents whose gutter is painted

Margin == 3                  \* the fixed part of the gutter width
GlyphWidths == {7, 9}        \* fontMetrics().horizontalAdvance('9') of the font in use

None == <<>>
AsmPath == <<"d", "/", "p", ".", "a", "s", "m">>
TxtPath == <<"q", ".", "s">>
Paths == {AsmPath, TxtPath}
AsmBin == <<"d", "/", "p", ".", "b", "i", "n">>
TxtBin == <<"q", ".", "b", "i", "n">>

NoFile == "<absent>"
Texts == {"", "A"}

Untitled == <<"Untitled">>
Untitled1 == <<"Untitled-1">>

Replies == {"Save", "Discard", "Cancel"}

-----------------------------------------------------------------------------
(* Python dict and path helpers *)

Get(d, k, default) == IF k \in DOMAIN d THEN d[k] ELSE default

Put(d, k, v) == [x \in (DOMAIN d) \cup {k} |-> IF x = k THEN v ELSE d[x]]

SetMax(S) == CHOOSE x \in S : \A y \in S : y <= x

SetMin(S) == CHOOSE x \in S : \A y \in S : x <= y

(* a base name that keeps the directory part *)
basename_whole(p) == p

basename(p) ==
    LET seps == {i \in 1..Len(p) : p[i] = "/"}
    IN  IF seps = {} THEN p ELSE SubSeq(p, SetMax(seps) + 1, Len(p))

-----------------------------------------------------------------------------
(* The window as a value, so that handlers can call each other *)

State ==
    [tabs |-> tabs, current |-> current, tab_modified |-> tab_modified,
     tab_file_paths |-> tab_file_paths, hovered_tab |-> hovered_tab,
     disk |-> disk, ev |-> {}, arg |-> None, opened |-> None]

count(w) == Cardinality(DOMAIN w.tabs)

indexOf(w, id) ==
    IF \E i \in DOMAIN w.tabs : w.tabs[i].id = id
    THEN CHOOSE i \in DOMAIN w.tabs : w.tabs[i].id = id
    ELSE -1

FreshId(w) == SetMin({n \in 1..(count(w) + 1) : \A i \in DOMAIN w.tabs : w.tabs[i].id # n})

setCurrentIndex(w, index) ==
    IF index \in DOMAIN w.tabs THEN [w EXCEPT !.current = index] ELSE w

-----------------------------------------------------------------------------
(* MainWindow.update_tab_button_state *)

update_tab_button_state(w, index, is_hovering) ==
    IF index < 0 \/ index >= count(w) THEN w
    ELSE LET is_modified == Get(w.tab_modified, index, FALSE)
             show == IF is_hovering THEN "x"
                     ELSE IF is_modified THEN "dot"
                     ELSE "hidden"
         IN  [w EXCEPT !.tabs[index].btnShow = show]

(* MainWindow.mark_tab_modified *)
mark_tab_modified(w, index) ==
    IF index >= 0
    THEN LET old_state == Get(w.tab_modified, index, FALSE)
             w1 == [w EXCEPT !.tab_modified = Put(w.tab_modified, index, TRUE)]
         IN  IF ~old_state
             THEN update_tab_button_state(w1, index, index = w1.hovered_tab)
             ELSE w1
    ELSE w

(* mark_tab_saved that forgets to clear the flag *)
mark_tab_saved_keeps_flag(w, index) ==
    IF index >= 0
    THEN update_tab_button_state(w, index, index = w.hovered_tab)
    ELSE w

(* mark_tab_saved that clears every tab's flag *)
mark_tab_saved_all(w, index) ==
    IF index >= 0
    THEN LET w1 == [w EXCEPT !.tab_modified = [k \in DOMAIN w.tab_modified |-> FALSE]]
         IN  update_tab_button_state(w1, index, index = w1.hovered_tab)
    ELSE w

(* MainWindow.mark_tab_saved *)
mark_tab_saved(w, index) ==
    IF index >= 0
    THEN LET w1 == [w EXCEPT !.tab_modified = Put(w.tab_modified, index, FALSE)]
         IN  update_tab_button_state(w1, index, index = w1.hovered_tab)
    ELSE w

-----------------------------------------------------------------------------
(* MainWindow.add_new_tab *)

setPlainText(content) == IF content # "" THEN content ELSE ""

add_new_tab(w, title, file_path, content) ==
    LET index == count(w)
        page == [id |-> FreshId(w), title |-> title, text |-> setPlainText(content),
                 docPath |-> file_path, docDirty |-> FALSE,
                 btnIdx |-> index, btnShow |-> "hidden"]
    IN  [w EXCEPT !.tabs = Put(w.tabs, index, page),
                  !.tab_modified = Put(w.tab_modified, index, FALSE),
                  !.tab_file_paths = Put(w.tab_file_paths, index, file_path),
                  !.current = index,
                  !.ev = w.ev \cup {"added"}]

-----------------------------------------------------------------------------
(* MainWindow.save_file_as: chosen is the file chooser's answer (None when  *)
(* dismissed), ok tells whether open(file_path, 'w') and the write succeed. *)

(* save_file_as that forgets to rename the tab *)
save_file_as_keeps_title(w, chosen, ok) ==
    LET index == w.current
    IN  IF index < 0 THEN w
        ELSE IF chosen = None THEN [w EXCEPT !.ev = w.ev \cup {"chooser"}]
        ELSE IF ~ok THEN [w EXCEPT !.ev = w.ev \cup {"chooser", "write_failed", "error"}]
        ELSE LET w1 == [w EXCEPT !.disk[chosen] = w.tabs[index].text,
                                 !.tabs[index].docPath = chosen,
                                 !.tabs[index].docDirty = FALSE,
                                 !.tab_file_paths = Put(w.tab_file_paths, index, chosen),
                                 !.ev = w.ev \cup {"chooser", "wrote"}]
             IN  mark_tab_saved(w1, index)

save_file_as(w, chosen, ok) ==
    LET index == w.current
    IN  IF index < 0 THEN w
        ELSE IF chosen = None THEN [w EXCEPT !.ev = w.ev \cup {"chooser"}]
        ELSE IF ~ok THEN [w EXCEPT !.ev = w.ev \cup {"chooser", "write_failed", "error"}]
        ELSE LET w1 == [w EXCEPT !.disk[chosen] = w.tabs[index].text,
                                 !.tabs[index].docPath = chosen,
                                 !.tabs[index].docDirty = FALSE,
                                 !.tabs[index].title = basename(chosen),
                                 !.tab_file_paths = Put(w.tab_file_paths, index, chosen),
                                 !.ev = w.ev \cup {"chooser", "wrote"}]
             IN  mark_tab_saved(w1, index)

(* save_file that always asks for a path *)
save_file_always_asks(w, chosen, ok) == save_file_as(w, chosen, ok)

(* save_file that marks the tab saved outside the try block *)
save_file_marks_on_failure(w, chosen, ok) ==
    LET index == w.current
        file_path == Get(w.tab_file_paths, index, None)
    IN  IF index < 0 THEN w
        ELSE IF file_path = None THEN save_file_as(w, chosen, ok)
        ELSE IF ~ok
             THEN mark_tab_saved([w EXCEPT !.ev = w.ev \cup {"write_failed", "error"}], index)
        ELSE LET w1 == [w EXCEPT !.disk[file_path] = w.tabs[index].text,
                                 !.tabs[index].docPath = file_path,
                                 !.tabs[index].docDirty = FALSE,
                                 !.ev = w.ev \cup {"wrote"}]
             IN  mark_tab_saved(w1, index)

(* MainWindow.save_file *)
save_file(w, chosen, ok) ==
    LET index == w.current
        file_path == Get(w.tab_file_paths, index, None)
    IN  IF index < 0 THEN w
        ELSE IF file_path = None THEN save_file_as(w, chosen, ok)
        ELSE IF ~ok THEN [w EXCEPT !.ev = w.ev \cup {"write_failed", "error"}]
        ELSE LET w1 == [w EXCEPT !.disk[file_path] = w.tabs[index].text,
                                 !.tabs[index].docPath = file_path,
                                 !.tabs[index].docDirty = FALSE,
                                 !.ev = w.ev \cup {"wrote"}]
             IN  mark_tab_saved(w1, index)

-----------------------------------------------------------------------------
(* MainWindow.open_file: file_path is the chooser's answer or the caller's  *)
(* argument, ok tells whether open(file_path, 'r') and the read succeed.    *)

(* open_file without the search for an open tab of the same path *)
AlreadyOpen_unchecked(w, file_path) == {}

AlreadyOpen(w, file_path) ==
    {i \in 0..(count(w) - 1) : Get(w.tab_file_paths, i, None) = file_path}

(* open(file_path, 'r') or f.read() raises *)
ReadFails(w, file_path, ok) ==
    \/ ~ok
    \/ file_path \notin DOMAIN w.disk
    \/ w.disk[file_path] = NoFile

(* open_file that opens an empty tab when the read fails *)
open_file_opens_empty(w, file_path, ok) ==
    LET hits == AlreadyOpen(w, file_path)
    IN  IF file_path = None THEN w
        ELSE IF hits # {} THEN setCurrentIndex(w, SetMin(hits))
        ELSE IF ReadFails(w, file_path, ok)
             THEN add_new_tab([w EXCEPT !.ev = w.ev \cup {"read_failed", "error"}],
                              basename(file_path), file_path, "")
        ELSE add_new_tab(w, basename(file_path), file_path, w.disk[file_path])

open_file(w, file_path, ok) ==
    LET hits == AlreadyOpen(w, file_path)
    IN  IF file_path = None THEN w
        ELSE IF hits # {} THEN setCurrentIndex(w, SetMin(hits))
        ELSE IF ReadFails(w, file_path, ok)
             THEN [w EXCEPT !.ev = w.ev \cup {"read_failed", "error"}]
        ELSE add_new_tab(w, basename(file_path), file_path, w.disk[file_path])

-----------------------------------------------------------------------------
(* MainWindow.assemble_code *)

(* file_path[:-3] + "bin" *)
OutputPath(file_path) ==
    (IF Len(file_path) > 3 THEN SubSeq(file_path, 1, Len(file_path) - 3) ELSE <<>>)
        \o <<"b", "i", "n">>

(* Where the external assembler leaves its output: the source path with    *)
(* its extension replaced by "bin".                                        *)
AssemblerOutput(file_path) ==
    LET dots == {i \in 1..Len(file_path) : file_path[i] = "."}
    IN  IF dots = {} THEN file_path \o <<".", "b", "i", "n">>
        ELSE SubSeq(file_path, 1, SetMax(dots)) \o <<"b", "i", "n">>

(* process.stdin.write(f"py main.py {file_path}\n"): the command line after *)
(* the interpreter word (py on Windows, python3 elsewhere).                 *)
stdin_write(file_path) ==
    <<" ", "m", "a", "i", "n", ".", "p", "y", " ">> \o file_path \o <<"\n">>

(* The argument the command line names: what follows " main.py " up to the *)
(* end of the line.                                                        *)
Argument(line) == SubSeq(line, 10, Len(line) - 1)

(* process.communicate(): the assembler runs to completion on the named    *)
(* argument; out is what it writes, NoFile when it writes nothing.         *)
communicate(w, line, out) ==
    LET target == AssemblerOutput(Argument(line))
    IN  [w EXCEPT !.disk = IF out # NoFile /\ target \in DOMAIN w.disk
                           THEN [w.disk EXCEPT ![target] = out]
                           ELSE w.disk,
                  !.arg = line,
                  !.ev = w.ev \cup {"assembled"}]

(* assemble_code that goes on to assemble after the save-as flow *)
assemble_code_no_return(w, chosen, ok, popenOk, out, readOk) ==
    LET index == w.current
        file_path == Get(w.tab_file_paths, index, None)
        w0 == IF file_path = None THEN save_file_as(w, chosen, ok) ELSE w
        path0 == Get(w0.tab_file_paths, index, None)
    IN  IF index < 0 THEN w
        ELSE IF ~popenOk THEN [w0 EXCEPT !.ev = w0.ev \cup {"popen_failed", "error"}]
        ELSE LET w1 == communicate(w0, stdin_write(path0), out)
                 w2 == [w1 EXCEPT !.opened = OutputPath(path0)]
             IN  open_file(w2, OutputPath(path0), readOk)

assemble_code(w, chosen, ok, popenOk, out, readOk) ==
    LET index == w.current
        file_path == Get(w.tab_file_paths, index, None)
    IN  IF index < 0 THEN w
        ELSE IF file_path = None THEN save_file_as(w, chosen, ok)
        ELSE IF ~popenOk THEN [w EXCEPT !.ev = w.ev \cup {"popen_failed", "error"}]
        ELSE LET w1 == communicate(w, stdin_write(file_path), out)
                 w2 == [w1 EXCEPT !.opened = OutputPath(file_path)]
             IN  open_file(w2, OutputPath(file_path), readOk)

-----------------------------------------------------------------------------
(* QTabWidget.removeTab: the pages to the right move one index down; the    *)
(* current index follows its page, and the right neighbour becomes current  *)
(* when the current page itself is removed.                                 *)

removeTab(w, index) ==
    IF index \notin DOMAIN w.tabs THEN w
    ELSE LET n == count(w)
             pages == [i \in 0..(n - 2) |-> IF i < index THEN w.tabs[i] ELSE w.tabs[i + 1]]
             cur == IF index < w.current THEN w.current - 1
                    ELSE IF w.current > n - 2 THEN n - 2
                    ELSE w.current
         IN  [w EXCEPT !.tabs = pages, !.current = cur, !.ev = w.ev \cup {"removed"}]

(* the reindexing loop with an off-by-one comparison *)
OldIndex_off_by_one(i, index) == IF i <= index THEN i ELSE i + 1

(* MainWindow.close_tab, "Rebuild dicts with updated indices" *)
OldIndex(i, index) == IF i < index THEN i ELSE i + 1

(* close_tab that leaves the dictionaries as they were *)
Rebuild_skipped(d, n, index) == d

Rebuild(d, n, index) ==
    [i \in {j \in 0..(n - 1) : OldIndex(j, index) \in DOMAIN d} |-> d[OldIndex(i, index)]]

(* close_tab that also closes the last tab *)
CanClose_any(w) == count(w) > 0

(* close_tab whose Cancel answer falls through to the removal *)
Cancelled_never(reply) == FALSE

(* MainWindow.close_tab *)
CanClose(w) == count(w) > 1

(* close_tab that never asks *)
MustPrompt_never(w, index) == FALSE

MustPrompt(w, index) == Get(w.tab_modified, index, FALSE)

Cancelled(reply) == reply = "Cancel"

close_tab(w, index, reply, chosen, ok) ==
    IF CanClose(w)
    THEN IF MustPrompt(w, index) /\ Cancelled(reply)
         THEN [w EXCEPT !.ev = w.ev \cup {"prompt"}]
         ELSE LET w1 == IF MustPrompt(w, index)
                        THEN [w EXCEPT !.ev = w.ev \cup {"prompt"}]
                        ELSE w
                  w2 == IF MustPrompt(w, index) /\ reply = "Save"
                        THEN setCurrentIndex(
                                 save_file(setCurrentIndex(w1, index), chosen, ok),
                                 w1.current)
                        ELSE w1
                  w3 == removeTab(w2, index)
              IN  [w3 EXCEPT !.tab_modified = Rebuild(w2.tab_modified, count(w3), index),
                             !.tab_file_paths = Rebuild(w2.tab_file_paths, count(w3), index)]
    ELSE w

-----------------------------------------------------------------------------
(* CodeEditor: the document is blockCount lines; the text cursor is on a    *)
(* line (0-based) and has a selection or not; extra is the list handed to   *)
(* setExtraSelections, each entry the cursor it was made from.             *)

Digits == <<"0", "1", "2", "3", "4", "5", "6", "7", "8", "9">>

RECURSIVE str(_)
str(n) == IF n < 10 THEN <<Digits[n + 1]>>
          ELSE str(n \div 10) \o <<Digits[(n % 10) + 1]>>

max(a, b) == IF a >= b THEN a ELSE b

(* a width taken from the last line's 0-based block number *)
line_number_area_width_zero_based(e) ==
    LET digits == Len(str(max(1, e.blockCount - 1)))
        space == Margin + e.glyph * digits
    IN  space

line_number_area_width(e) ==
    LET digits == Len(str(max(1, e.blockCount)))
        space == Margin + e.glyph * digits
    IN  space

update_line_number_area_width(e) ==
    [e EXCEPT !.margin = line_number_area_width(e)]

(* a highlight that is added to the selections already there *)
highlight_current_line_appends(e) ==
    LET selection == [line |-> e.cursor.line, sel |-> FALSE]
    IN  [e EXCEPT !.extra = IF ~e.readOnly THEN Append(e.extra, selection) ELSE e.extra]

highlight_current_line(e) ==
    LET extra_selections == <<>>
        selection == [line |-> e.cursor.line, sel |-> FALSE]
    IN  [e EXCEPT !.extra = IF ~e.readOnly THEN Append(extra_selections, selection)
                            ELSE extra_selections]

(* The slots connected in __init__ run for the signals a change emits. *)
emit(e, op, sig) ==
    LET e1 == IF "blockCountChanged" \in sig THEN update_line_number_area_width(e) ELSE e
        e2 == IF "cursorPositionChanged" \in sig THEN highlight_current_line(e1) ELSE e1
    IN  [e2 EXCEPT !.op = op, !.sig = sig]

(* The selections' cursors belong to the document and follow its edits. *)
Follow(e, from, by) ==
    [e EXCEPT !.extra = [k \in DOMAIN e.extra |->
                            IF e.extra[k].line >= from
                            THEN [e.extra[k] EXCEPT !.line = max(0, e.extra[k].line + by)]
                            ELSE e.extra[k]]]

CodeEditor_init(glyph) ==
    LET e0 == [blockCount |-> 1, cursor |-> [line |-> 0, sel |-> FALSE],
               readOnly |-> FALSE, margin |-> 0, extra |-> <<>>, glyph |-> glyph,
               op |-> "init", sig |-> {}]
    IN  highlight_current_line(update_line_number_area_width(e0))

-----------------------------------------------------------------------------
(* LineNumberArea: the gutter of a CodeEditor.  Vertical coordinates are    *)
(* pixel rows of the viewport; first is the first visible block, offset the *)
(* row of its top edge (contentOffset), hidden the blocks whose isVisible() *)
(* is false; drawn and visited record the last paint event.                 *)

LineHeight == 2              \* blockBoundingRect(block).height() of a shown line

LineNumberArea_init ==
    [first |-> 0, offset |-> 0, hidden |-> {}, rect |-> [y |-> 0, height |-> 0],
     drawn |-> {}, visited |-> {}, op |-> "init"]

isValid(e, block) == block \in 0..(e.blockCount - 1)

isVisible(g, block) == block \notin g.hidden

blockBoundingRect_height(e, g, block) ==
    IF isValid(e, block) /\ isVisible(g, block) THEN LineHeight ELSE 0

(* QRect.top() and QRect.bottom(): the first and the last pixel row *)
rect_top(rect) == rect.y

rect_bottom(rect) == rect.y + rect.height - 1

(* the while loop of line_number_area_paint_event, from block at row top *)
RECURSIVE paint_loop(_, _, _, _, _, _, _)
paint_loop(e, g, rect, block, block_number, top, acc) ==
    LET bottom == top + blockBoundingRect_height(e, g, block)
    IN  IF isValid(e, block) /\ top <= rect_bottom(rect)
        THEN LET number == block_number + 1
                 shown == isVisible(g, block) /\ bottom >= rect_top(rect)
                 acc1 == [drawn |-> IF shown
                                    THEN acc.drawn \cup {[number |-> number, top |-> top, block |-> block]}
                                    ELSE acc.drawn,
                          visited |-> acc.visited \cup {block}]
             IN  paint_loop(e, g, rect, block + 1, block_number + 1, bottom, acc1)
        ELSE acc

(* a paint event that walks on to the last block of the document *)
line_number_area_paint_event_to_the_end(e, g, rect) ==
    LET rest == [y |-> rect.y, height |-> LineHeight * (e.blockCount + 1) + 1 - rect.y]
        acc == paint_loop(e, g, rest, g.first, g.first, g.offset, [drawn |-> {}, visited |-> {}])
    IN  [g EXCEPT !.rect = rect,
                  !.drawn = {d \in acc.drawn : d.top <= rect_bottom(rect)},
                  !.visited = acc.visited, !.op = "paint"]

line_number_area_paint_event(e, g, rect) ==
    LET block == g.first
        block_number == block
        top == g.offset
        acc == paint_loop(e, g, rect, block, block_number, top, [drawn |-> {}, visited |-> {}])
    IN  [g EXCEPT !.rect = rect, !.drawn = acc.drawn, !.visited = acc.visited, !.op = "paint"]

-----------------------------------------------------------------------------
(* CustomTabBar.mouseMoveEvent / leaveEvent *)

mouseMoveEvent(w, new_hovered) ==
    IF new_hovered # w.hovered_tab
    THEN LET old_hovered == w.hovered_tab
             w1 == [w EXCEPT !.hovered_tab = new_hovered]
             w2 == IF old_hovered >= 0
                   THEN update_tab_button_state(w1, old_hovered, FALSE) ELSE w1
         IN  IF new_hovered >= 0
             THEN update_tab_button_state(w2, new_hovered, TRUE) ELSE w2
    ELSE w

leaveEvent(w) ==
    IF w.hovered_tab >= 0
    THEN update_tab_button_state([w EXCEPT !.hovered_tab = -1], w.hovered_tab, FALSE)
    ELSE w

(* the index captured when the tab was made, as the close button's lambda does *)
SlotIndex_captured(w, id) == w.tabs[indexOf(w, id)].btnIdx

(* the argument of the textChanged lambda: self.tabs.indexOf(editor) *)
SlotIndex(w, id) == indexOf(w, id)

(* editor.textChanged -> mark_tab_modified(self.tabs.indexOf(editor)) *)
textChanged(w, id, text) ==
    LET at == indexOf(w, id)
        w1 == [w EXCEPT !.tabs[at].text = text, !.tabs[at].docDirty = TRUE]
    IN  mark_tab_modified(w1, SlotIndex(w1, id))

InitWindow ==
    LET w0 == [tabs |-> <<>>, current |-> -1, tab_modified |-> <<>>,
               tab_file_paths |-> <<>>, hovered_tab |-> -1,
               disk |-> [p \in Paths \cup {AsmBin, TxtBin} |->
                            IF p = AsmPath THEN "A" ELSE NoFile],
               ev |-> {}, arg |-> None, opened |-> None]
        w == add_new_tab(w0, Untitled1, None, "")
    IN  /\ tabs = w.tabs
        /\ current = w.current
        /\ tab_modified = w.tab_modified
        /\ tab_file_paths = w.tab_file_paths
        /\ hovered_tab = w.hovered_tab
        /\ disk = w.disk
        /\ last = [op |-> "init", tab |-> -1, index |-> -1, reply |-> "none", path |-> None,
                   ev |-> {}, arg |-> None, opened |-> None]
        /\ steps = 0

Init == InitWindow /\ ed = CodeEditor_init(7) /\ gutter = LineNumberArea_init

(* The inputs a handler run consumes: the chooser answers only when the    *)
(* chooser is shown, the write or read fails only when one is attempted.   *)
Answers(asked) == IF asked THEN Paths \cup {None} ELSE {None}

Outcomes(attempted) == IF attempted THEN BOOLEAN ELSE {TRUE}

Set(w, op, tab, index, reply, path) ==
    /\ steps' = steps + 1
    /\ ed' = ed
    /\ gutter' = gutter
    /\ tabs' = w.tabs
    /\ current' = w.current
    /\ tab_modified' = w.tab_modified
    /\ tab_file_paths' = w.tab_file_paths
    /\ hovered_tab' = w.hovered_tab
    /\ disk' = w.disk
    /\ last' = [op |-> op, tab |-> tab, index |-> index, reply |-> reply, path |-> path,
                ev |-> w.ev, arg |-> w.arg, opened |-> w.opened]

NewTab ==
    /\ steps < MaxSteps
    /\ count(State) < MaxTabs
    /\ Set(add_new_tab(State, Untitled, None, ""), "new_tab", -1, -1, "none", None)

(* The user types in the visible editor. *)
Edit ==
    \E text \in Texts :
        /\ steps < MaxSteps
        /\ text # tabs[current].text
        /\ Set(textChanged(State, tabs[current].id, text), "edit", current, current, "none", None)

(* The user clicks a tab of the tab bar. *)
SelectTab ==
    \E i \in DOMAIN tabs :
        /\ steps < MaxSteps
        /\ i # current
        /\ Set(setCurrentIndex(State, i), "select", i, i, "none", None)

(* The mouse moves over a tab.  (Over the empty part of the bar tabAt gives *)
(* -1, and mouseMoveEvent then does what leaveEvent does.)                 *)
MouseMove ==
    \E new_hovered \in 0..(count(State) - 1) :
        /\ steps < MaxSteps
        /\ Set(mouseMoveEvent(State, new_hovered), "hover", new_hovered, new_hovered, "none", None)

MouseLeave ==
    /\ steps < MaxSteps
    /\ Set(leaveEvent(State), "leave", -1, -1, "none", None)

(* Ctrl+O / open button: the chooser offers the existing files. *)
OpenFile ==
    \E file_path \in Paths \cup {None} :
        /\ steps < MaxSteps
        /\ file_path # None => disk[file_path] # NoFile
        /\ \E ok \in Outcomes("added" \in open_file(State, file_path, TRUE).ev) :
               LET w == open_file(State, file_path, ok)
               IN  /\ count(w) <= MaxTabs
                   /\ Set(w, "open_file", -1, -1, "none", file_path)

(* Ctrl+S / save button *)
SaveFile ==
    /\ steps < MaxSteps
    /\ \E chosen \in Answers("chooser" \in save_file(State, None, TRUE).ev) :
       \E ok \in Outcomes("wrote" \in save_file(State, chosen, TRUE).ev) :
           Set(save_file(State, chosen, ok), "save_file", current, current, "none", chosen)

(* Ctrl+Shift+S / save-as button *)
SaveFileAs ==
    /\ steps < MaxSteps
    /\ \E chosen \in Answers("chooser" \in save_file_as(State, None, TRUE).ev) :
       \E ok \in Outcomes("wrote" \in save_file_as(State, chosen, TRUE).ev) :
           Set(save_file_as(State, chosen, ok), "save_file_as", current, current, "none", chosen)

(* The user clicks the close/indicator button shown on tab i:               *)
(* close_btn.clicked -> close_tab(idx), idx captured when the tab was made. *)
ClickClose ==
    \E i \in DOMAIN tabs :
        /\ steps < MaxSteps
        /\ tabs[i].btnShow # "hidden"
        /\ LET index == tabs[i].btnIdx
               prompts == "prompt" \in close_tab(State, index, "Cancel", None, TRUE).ev
           IN  \E reply \in IF prompts THEN Replies ELSE {"none"} :
               \E chosen \in Answers("chooser" \in close_tab(State, index, reply, None, TRUE).ev) :
               \E ok \in Outcomes("wrote" \in close_tab(State, index, reply, chosen, TRUE).ev) :
                   Set(close_tab(State, index, reply, chosen, ok), "close_tab", i, index, reply, chosen)

(* assemble button; out is what the assembler writes (NoFile: nothing) *)
AssembleCode ==
    /\ steps < MaxSteps
    /\ \E chosen \in Answers("chooser" \in assemble_code(State, None, TRUE, TRUE, NoFile, TRUE).ev) :
       \E ok \in Outcomes("wrote" \in assemble_code(State, chosen, TRUE, TRUE, NoFile, TRUE).ev) :
       \E popenOk \in Outcomes("assembled" \in assemble_code(State, chosen, ok, TRUE, NoFile, TRUE).ev) :
       \E out \in IF "assembled" \in assemble_code(State, chosen, ok, popenOk, NoFile, TRUE).ev
                  THEN Texts \cup {NoFile} ELSE {NoFile} :
       \E readOk \in Outcomes("added" \in assemble_code(State, chosen, ok, popenOk, out, TRUE).ev) :
           LET w == assemble_code(State, chosen, ok, popenOk, out, readOk)
           IN  /\ count(w) <= MaxTabs
               /\ Set(w, "assemble_code", current, current, "none", chosen)

Next ==
    \/ AssembleCode
    \/ NewTab
    \/ Edit
    \/ SelectTab
    \/ MouseMove
    \/ MouseLeave
    \/ OpenFile
    \/ SaveFile
    \/ SaveFileAs
    \/ ClickClose

Spec == Init /\ [][Next]_vars

-----------------------------------------------------------------------------
(* One CodeEditor on its own: programmatic loads, key presses, cursor moves *)

InitEditor ==
    /\ InitWindow
    /\ ed \in {CodeEditor_init(glyph) : glyph \in GlyphWidths}
    /\ gutter = LineNumberArea_init

SetEd(e) == ed' = e /\ UNCHANGED window /\ gutter' = LineNumberArea_init

(* setPlainText with a text of n lines: the cursor goes to the start and    *)
(* the view to the top, no block of the new document is hidden; the         *)
(* cursor signal is certain only when the cursor was elsewhere.             *)
SetPlainText ==
    \E n \in 1..MaxLines, notify \in BOOLEAN :
        LET sig == (IF n # ed.blockCount THEN {"blockCountChanged"} ELSE {})
                   \cup (IF notify THEN {"cursorPositionChanged"} ELSE {})
            e1 == [ed EXCEPT !.blockCount = n, !.cursor = [line |-> 0, sel |-> FALSE],
                             !.extra = [k \in DOMAIN ed.extra |-> [line |-> 0, sel |-> FALSE]]]
        IN  /\ ed.cursor # [line |-> 0, sel |-> FALSE] => notify
            /\ SetEd(emit(e1, "setPlainText", sig))

(* Return: a new line after the cursor's, the cursor moves onto it. *)
KeyReturn ==
    /\ ~ed.readOnly
    /\ ~ed.cursor.sel
    /\ ed.blockCount < MaxLines
    /\ LET e1 == Follow([ed EXCEPT !.blockCount = ed.blockCount + 1,
                                   !.cursor = [line |-> ed.cursor.line + 1, sel |-> FALSE]],
                        ed.cursor.line + 1, 1)
       IN  SetEd(emit(e1, "keyReturn", {"blockCountChanged", "cursorPositionChanged"}))

(* Backspace at the start of a line: it joins the line before. *)
KeyBackspace ==
    /\ ~ed.readOnly
    /\ ~ed.cursor.sel
    /\ ed.cursor.line > 0
    /\ LET e1 == Follow([ed EXCEPT !.blockCount = ed.blockCount - 1,
                                   !.cursor = [line |-> ed.cursor.line - 1, sel |-> FALSE]],
                        ed.cursor.line, -1)
       IN  SetEd(emit(e1, "keyBackspace", {"blockCountChanged", "cursorPositionChanged"}))

(* Delete at the end of a line: the next line joins it, the cursor stays. *)
KeyDelete ==
    /\ ~ed.readOnly
    /\ ~ed.cursor.sel
    /\ ed.cursor.line < ed.blockCount - 1
    /\ LET e1 == Follow([ed EXCEPT !.blockCount = ed.blockCount - 1],
                        ed.cursor.line + 1, -1)
       IN  SetEd(emit(e1, "keyDelete", {"blockCountChanged"}))

(* Arrow keys and mouse clicks, with or without Shift. *)
MoveCursor ==
    \E line \in 0..(ed.blockCount - 1), sel \in BOOLEAN :
        /\ [line |-> line, sel |-> sel] # ed.cursor
        /\ SetEd(emit([ed EXCEPT !.cursor = [line |-> line, sel |-> sel]],
                      "moveCursor", {"cursorPositionChanged"}))

(* QPlainTextEdit.setReadOnly: no slot of the editor is connected to it. *)
SetReadOnly ==
    \E ro \in BOOLEAN :
        /\ ro # ed.readOnly
        /\ SetEd(emit([ed EXCEPT !.readOnly = ro], "setReadOnly", {}))

NextEditor ==
    \/ SetPlainText
    \/ KeyReturn
    \/ KeyBackspace
    \/ KeyDelete
    \/ MoveCursor
    \/ SetReadOnly

SpecEditor == InitEditor /\ [][NextEditor]_vars

-----------------------------------------------------------------------------
(* The gutter of one CodeEditor: loads, hidden blocks, scrolling, repaints *)

SetGutter(g) == gutter' = g /\ UNCHANGED window /\ ed' = ed

(* a change of the view: what the last paint event drew is forgotten *)
Changed(g, op) ==
    [g EXCEPT !.rect = LineNumberArea_init.rect, !.drawn = {}, !.visited = {}, !.op = op]

(* QTextBlock.setVisible on a block other than the first visible one *)
SetBlockVisible ==
    \E block \in 0..(ed.blockCount - 1), visible \in BOOLEAN :
        /\ block # gutter.first
        /\ visible = (block \in gutter.hidden)
        /\ ~visible => Cardinality(gutter.hidden) < MaxHidden
        /\ SetGutter(Changed([gutter EXCEPT !.hidden = IF visible THEN @ \ {block}
                                                      ELSE @ \cup {block}],
                              "setVisible"))

(* Scrolling: another shown block becomes the first visible one, with its  *)
(* top edge at the viewport's top or above it.                             *)
Scroll ==
    \E first \in 0..(ed.blockCount - 1), offset \in (1 - LineHeight)..0 :
        /\ first \notin gutter.hidden
        /\ <<first, offset>> # <<gutter.first, gutter.offset>>
        /\ SetGutter(Changed([gutter EXCEPT !.first = first, !.offset = offset], "scroll"))

(* LineNumberArea.paintEvent with the rectangle to repaint *)
PaintEvent ==
    \E y \in 0..(MaxY - 1) :
        \E height \in 1..(MaxY - y) :
            /\ isValid(ed, gutter.first)
            /\ SetGutter(line_number_area_paint_event(ed, gutter, [y |-> y, height |-> height]))

(* setPlainText with a text of at most MaxBlocks lines *)
LoadText ==
    /\ SetPlainText
    /\ ed'.blockCount <= MaxBlocks

NextPaint ==
    \/ LoadText
    \/ SetBlockVisible
    \/ Scroll
    \/ PaintEvent

SpecPaint == Init /\ [][NextPaint]_vars

-----------------------------------------------------------------------------
(* Shorthands for the properties *)

Ids(t) == {t[i].id : i \in DOMAIN t}

Did(op, e) == last.op = op /\ e \in last.ev

\* The index a page of the pre-state has after the tab at index was removed.
ShiftedFrom(i, index) == IF i < index THEN i ELSE i + 1

-----------------------------------------------------------------------------
(* C1: the window always has at least one open tab, and close_tab while     *)
(* exactly one tab is open removes nothing, shows no prompt and changes no  *)
(* stored path or modified flag, whether or not that tab is modified.       *)
C1_LastTabStays ==
    /\ [](count(State) >= 1)
    /\ [][(last'.op = "close_tab" /\ count(State) = 1) =>
            /\ tabs' = tabs
            /\ current' = current
            /\ tab_modified' = tab_modified
            /\ tab_file_paths' = tab_file_paths
            /\ disk' = disk
            /\ last'.ev = {}]_vars

C1_Witness ==
    /\ last.op = "close_tab"
    /\ last.ev = {}
    /\ count(State) = 1
    /\ tab_modified[0] = TRUE

(* C2: the modified flag is false right after the tab is created by new-tab *)
(* or by open (also with non-empty content) and right after a successful    *)
(* save or save-as, and it is true after any content change.                *)
C2_ModifiedAfterLoadSaveEdit ==
    /\ (last.op \in {"new_tab", "open_file"} /\ "added" \in last.ev) =>
           /\ current = count(State) - 1
           /\ tab_modified[current] = FALSE
    /\ (last.op \in {"save_file", "save_file_as"} /\ "wrote" \in last.ev) =>
           /\ last.index = current
           /\ tab_modified[current] = FALSE
    /\ last.op = "edit" =>
           /\ last.index = current
           /\ tab_modified[current] = TRUE

C2_Witness ==
    /\ last.op = "edit"
    /\ tab_file_paths[current] # None
    /\ tab_modified[current] = TRUE
    /\ tabs[current].text # disk[tab_file_paths[current]]

(* C3: when close_tab(index) removes a tab (clean, or modified and Discard  *)
(* chosen), every remaining tab's stored path and flag at its new index are *)
(* those of its old index (i for i < index, i + 1 otherwise), and both      *)
(* dictionaries have exactly the keys 0..count-1.                           *)
C3_CloseReindexes ==
    [][(last'.op = "close_tab" /\ "removed" \in last'.ev
            /\ last'.reply \in {"none", "Discard"}) =>
        /\ count(State)' = count(State) - 1
        /\ DOMAIN tab_modified' = 0..(count(State)' - 1)
        /\ DOMAIN tab_file_paths' = 0..(count(State)' - 1)
        /\ \A i \in 0..(count(State)' - 1) :
              /\ tab_modified'[i] = tab_modified[ShiftedFrom(i, last'.index)]
              /\ tab_file_paths'[i] = tab_file_paths[ShiftedFrom(i, last'.index)]
              /\ tabs'[i].id = tabs[ShiftedFrom(i, last'.index)].id]_vars

C3_Witness ==
    /\ Did("close_tab", "removed")
    /\ last.reply = "Discard"
    /\ last.index = 0
    /\ count(State) = 2
    /\ tab_file_paths[1] # None
    /\ tab_modified[0] # tab_modified[1]

(* C4: at every open tab index i, tab_file_paths[i] and tab_modified[i] are *)
(* the path and the modified state of the document whose editor is shown at *)
(* index i.                                                                 *)
C4_StateFollowsDocument ==
    /\ DOMAIN tab_modified = DOMAIN tabs
    /\ DOMAIN tab_file_paths = DOMAIN tabs
    /\ \A i \in DOMAIN tabs :
          /\ tab_file_paths[i] = tabs[i].docPath
          /\ tab_modified[i] = tabs[i].docDirty

C4_Witness ==
    /\ Did("close_tab", "removed")
    /\ last.tab # last.index
    /\ \E i \in DOMAIN tabs : tab_modified[i] /\ tabs[i].btnIdx # i

(* C5: answering Cancel to close_tab's prompt changes nothing: the same     *)
(* tabs in the same order, the same current tab, the same stored paths and  *)
(* modified flags.                                                          *)
C5_CancelKeepsAll ==
    [][(last'.op = "close_tab" /\ last'.reply = "Cancel") =>
        /\ "prompt" \in last'.ev
        /\ tabs' = tabs
        /\ current' = current
        /\ tab_modified' = tab_modified
        /\ tab_file_paths' = tab_file_paths
        /\ hovered_tab' = hovered_tab
        /\ disk' = disk]_vars

C5_Witness ==
    /\ last.op = "close_tab"
    /\ last.reply = "Cancel"
    /\ last.index = current
    /\ tab_modified[current] = TRUE
    /\ count(State) = 3

(* C6: a tab whose modified flag is true is removed only after the prompt   *)
(* was shown for it and answered Save or Discard; a clean tab is removed by *)
(* close_tab without a prompt.                                              *)
C6_ModifiedNeedsPrompt ==
    [][\A i \in DOMAIN tabs :
          tabs[i].id \notin Ids(tabs') =>
              /\ last'.op = "close_tab"
              /\ last'.index = i
              /\ tab_modified[i] =>
                    ("prompt" \in last'.ev /\ last'.reply \in {"Save", "Discard"})
              /\ ~tab_modified[i] =>
                    ("prompt" \notin last'.ev /\ last'.reply = "none")]_vars

C6_Witness ==
    /\ Did("close_tab", "removed")
    /\ Did("close_tab", "prompt")
    /\ Did("close_tab", "wrote")
    /\ last.reply = "Save"

(* C7: a tab's modified flag goes from true to false only by a successful   *)
(* save or save-as of that tab (save-as also as the first part of           *)
(* assemble_code on a tab without a path); answering Discard removes the    *)
(* tab.                                                                     *)
C7_OnlySaveCleans ==
    [][/\ \A i \in DOMAIN tabs : \A j \in DOMAIN tabs' :
            (tabs[i].id = tabs'[j].id /\ tab_modified[i] /\ ~tab_modified'[j]) =>
                /\ last'.op \in {"save_file", "save_file_as", "assemble_code"}
                /\ last'.op = "assemble_code" => "chooser" \in last'.ev
                /\ "wrote" \in last'.ev
                /\ i = current
                /\ j = current'
       /\ (last'.op = "close_tab" /\ last'.reply = "Discard") =>
                tabs[last'.index].id \notin Ids(tabs')]_vars

C7_Witness ==
    /\ last.op \in {"save_file", "save_file_as"}
    /\ "wrote" \in last.ev
    /\ ~tab_modified[current]
    /\ \E j \in DOMAIN tabs : j # current /\ tab_modified[j]

(* C8: open_file with the path of an open tab makes such a tab current and  *)
(* adds no tab: the tabs with their content, the stored paths and the       *)
(* modified flags are unchanged.                                            *)
C8_OpenExistingFocuses ==
    [][(last'.op = "open_file" /\ last'.path # None
            /\ \E i \in DOMAIN tabs : tab_file_paths[i] = last'.path) =>
        /\ tabs' = tabs
        /\ tab_modified' = tab_modified
        /\ tab_file_paths' = tab_file_paths
        /\ disk' = disk
        /\ tab_file_paths[current'] = last'.path
        /\ \A i \in DOMAIN tabs : tab_file_paths[i] = last'.path => current' <= i]_vars

C8_Witness ==
    /\ last.op = "open_file"
    /\ last.ev = {}
    /\ last.path # None
    /\ count(State) = 3
    /\ current = 1
    /\ tab_file_paths[1] = last.path
    /\ tab_modified[1]

(* C9: open_file with a readable path no tab has appends one tab titled by *)
(* the path's base name, holding the file's content, with that path and a   *)
(* false modified flag, and makes it current; the other tabs keep index,    *)
(* path and flag.                                                           *)
C9_OpenAppendsTab ==
    [][(last'.op = "open_file" /\ last'.path # None
            /\ "error" \notin last'.ev
            /\ \A i \in DOMAIN tabs : tab_file_paths[i] # last'.path) =>
        /\ DOMAIN tabs' = 0..count(State)
        /\ current' = count(State)
        /\ tabs'[current'].text = disk[last'.path]
        /\ tabs'[current'].title =
              (IF last'.path = AsmPath THEN <<"p", ".", "a", "s", "m">> ELSE TxtPath)
        /\ tab_file_paths'[current'] = last'.path
        /\ tab_modified'[current'] = FALSE
        /\ disk' = disk
        /\ \A i \in DOMAIN tabs :
              /\ tabs'[i].id = tabs[i].id
              /\ tabs'[i].text = tabs[i].text
              /\ tabs'[i].title = tabs[i].title
              /\ tab_file_paths'[i] = tab_file_paths[i]
              /\ tab_modified'[i] = tab_modified[i]]_vars

C9_Witness ==
    /\ Did("open_file", "added")
    /\ last.path = AsmPath
    /\ tabs[current].text = "A"
    /\ tabs[current].title = <<"p", ".", "a", "s", "m">>
    /\ count(State) = 3

(* C10: save_file on a current tab that has a path writes the tab's buffer  *)
(* to that path and clears the tab's modified flag; the paths, the titles,  *)
(* the current index, the tabs and the other tabs' flags are unchanged.     *)
C10_SaveWritesAndClears ==
    [][(last'.op = "save_file" /\ tab_file_paths[current] # None
            /\ "error" \notin last'.ev) =>
        /\ disk' = [disk EXCEPT ![tab_file_paths[current]] = tabs[current].text]
        /\ tab_modified'[current] = FALSE
        /\ tab_file_paths' = tab_file_paths
        /\ current' = current
        /\ DOMAIN tabs' = DOMAIN tabs
        /\ \A i \in DOMAIN tabs :
              /\ tabs'[i].id = tabs[i].id
              /\ tabs'[i].text = tabs[i].text
              /\ tabs'[i].title = tabs[i].title
              /\ i # current => tab_modified'[i] = tab_modified[i]]_vars

C10_Witness ==
    /\ Did("save_file", "wrote")
    /\ "chooser" \notin last.ev
    /\ disk[tab_file_paths[current]] = ""
    /\ \E j \in DOMAIN tabs : j # current /\ tab_modified[j]

(* C11: save_file on a current tab without a path runs the save-as flow; a  *)
(* successful save-as to a chosen path sets the current tab's title to the  *)
(* path's base name, its path to the chosen path and its flag to false; a   *)
(* dismissed chooser changes no title, path or flag.                        *)
C11_SaveAsFlow ==
    [][/\ (last'.op = "save_file" /\ tab_file_paths[current] = None) =>
              "chooser" \in last'.ev
       /\ (last'.op \in {"save_file", "save_file_as"} /\ "chooser" \in last'.ev
              /\ "wrote" \in last'.ev) =>
              /\ last'.path # None
              /\ tabs'[current].title =
                    (IF last'.path = AsmPath THEN <<"p", ".", "a", "s", "m">> ELSE TxtPath)
              /\ tab_file_paths'[current] = last'.path
              /\ tab_modified'[current] = FALSE
              /\ disk'[last'.path] = tabs[current].text
              /\ current' = current
       /\ (last'.op \in {"save_file", "save_file_as"} /\ "chooser" \in last'.ev
              /\ last'.path = None) =>
              /\ tabs' = tabs
              /\ tab_file_paths' = tab_file_paths
              /\ tab_modified' = tab_modified
              /\ disk' = disk]_vars

C11_Witness ==
    /\ Did("save_file", "chooser")
    /\ Did("save_file", "wrote")
    /\ last.path = AsmPath
    /\ tabs[current].title = <<"p", ".", "a", "s", "m">>
    /\ tab_file_paths[current] = AsmPath

(* C12: a content change in a tab's editor sets the modified flag of that  *)
(* tab, at the index it has now, and leaves every other tab's flag and     *)
(* every path unchanged.                                                   *)
C12_EditMarksOwnTabOnly ==
    [][last'.op = "edit" =>
        /\ DOMAIN tab_modified' = DOMAIN tab_modified
        /\ tab_file_paths' = tab_file_paths
        /\ \A j \in DOMAIN tabs :
              /\ tabs'[j].id = tabs[j].id
              /\ tabs'[j].text # tabs[j].text => tab_modified'[j] = TRUE
              /\ tabs'[j].text = tabs[j].text => tab_modified'[j] = tab_modified[j]
        /\ \E j \in DOMAIN tabs : tabs'[j].text # tabs[j].text]_vars

C12_Witness ==
    /\ last.op = "edit"
    /\ tabs[current].btnIdx # current
    /\ tab_modified[current]
    /\ \E j \in DOMAIN tabs : j # current /\ ~tab_modified[j]

(* C14: when the write fails in save_file or save_file_as the error dialog *)
(* is shown, nothing is written, and every tab's flag, path and title are  *)
(* as before.                                                              *)
C14_FailedSaveKeepsState ==
    [][(last'.op \in {"save_file", "save_file_as"} /\ "write_failed" \in last'.ev) =>
        /\ "error" \in last'.ev
        /\ "wrote" \notin last'.ev
        /\ tabs' = tabs
        /\ current' = current
        /\ tab_modified' = tab_modified
        /\ tab_file_paths' = tab_file_paths
        /\ disk' = disk]_vars

C14_Witness ==
    /\ Did("save_file", "write_failed")
    /\ "chooser" \notin last.ev
    /\ tab_modified[current]
    /\ tab_file_paths[current] # None

(* C15: when the read fails in open_file the error dialog is shown and no  *)
(* tab is created: tab count, current tab, stored paths and flags are as   *)
(* before.                                                                 *)
C15_FailedOpenAddsNothing ==
    [][(last'.op = "open_file" /\ "read_failed" \in last'.ev) =>
        /\ "error" \in last'.ev
        /\ "added" \notin last'.ev
        /\ tabs' = tabs
        /\ current' = current
        /\ tab_modified' = tab_modified
        /\ tab_file_paths' = tab_file_paths
        /\ disk' = disk]_vars

C15_Witness ==
    /\ Did("open_file", "read_failed")
    /\ last.path = AsmPath
    /\ count(State) = 2
    /\ \A i \in DOMAIN tabs : tab_file_paths[i] # AsmPath

(* C16: assemble_code starts the assembler only when the current tab has a *)
(* path, and the command line names exactly that path; when the current    *)
(* tab has no path it shows the save-as chooser and starts no assembler,   *)
(* also when that save-as has just associated a path.                      *)
C16_AssembleNeedsPath ==
    [][last'.op = "assemble_code" =>
        LET file_path == Get(tab_file_paths, current, None)
            started == {"assembled", "popen_failed"} \cap last'.ev # {}
        IN  /\ started => file_path # None
            /\ "assembled" \in last'.ev => Argument(last'.arg) = file_path
            /\ file_path = None => "chooser" \in last'.ev /\ ~started]_vars

C16_Witness ==
    /\ Did("assemble_code", "chooser")
    /\ "wrote" \in last.ev
    /\ "assembled" \notin last.ev
    /\ tab_file_paths[current] = TxtPath
    /\ disk[TxtPath] = "A"

(* C17: the path assemble_code opens after the assembler has finished is   *)
(* the current tab's source path with its final extension replaced by      *)
(* "bin", whatever the length of that extension.                           *)
C17_OutputReplacesExtension ==
    [][(last'.op = "assemble_code" /\ "assembled" \in last'.ev) =>
        last'.opened = AssemblerOutput(tab_file_paths[current])]_vars

(* C18: after assemble_code has run the assembler to completion on a tab   *)
(* with a path, if the expected output file is readable it is loaded into  *)
(* a new tab: one more tab, which is focused, is associated with the       *)
(* output path and shows the file's content as it is on disk after this    *)
(* assembly, also when a tab for that output path was already open.        *)
C18_OutputLoadedIntoNewTab ==
    [][LET expected == AssemblerOutput(tab_file_paths[current])
       IN  (/\ last'.op = "assemble_code"
            /\ "assembled" \in last'.ev
            /\ "read_failed" \notin last'.ev
            /\ disk'[expected] # NoFile) =>
               /\ DOMAIN tabs' = 0..Cardinality(DOMAIN tabs)
               /\ current' = Cardinality(DOMAIN tabs)
               /\ tab_file_paths'[current'] = expected
               /\ tabs'[current'].text = disk'[expected]]_vars

(* The number of decimal digits of n, and the counts a power of ten. *)
NumDigits(n) == IF n < 10 THEN 1 ELSE IF n < 100 THEN 2 ELSE IF n < 1000 THEN 3 ELSE 4

PowersOfTen == {10, 100, 1000}

(* C19: line_number_area_width is 3 plus the digit glyph's width times the *)
(* number of decimal digits of max(1, line count); so over the line counts *)
(* the width grows exactly where the count passes from 10^k - 1 to 10^k    *)
(* and is the same for n and n + 1 elsewhere; and the viewport's left      *)
(* margin is this width for the line count the document has.               *)
C19_GutterWidth ==
    LET width(n) == line_number_area_width([ed EXCEPT !.blockCount = n])
        lines == IF ed.blockCount >= 1 THEN ed.blockCount ELSE 1
    IN  /\ line_number_area_width(ed) = 3 + ed.glyph * NumDigits(lines)
        /\ ed.margin = 3 + ed.glyph * NumDigits(lines)
        /\ \A n \in 1..MaxCount :
               /\ width(n) = 3 + ed.glyph * NumDigits(n)
               /\ IF n + 1 \in PowersOfTen THEN width(n + 1) > width(n)
                  ELSE width(n + 1) = width(n)

C19_Witness ==
    /\ ed.op = "keyReturn"
    /\ ed.blockCount = 10
    /\ ed.glyph = 9
    /\ ed.margin = 21

(* C20: after construction and after every change of the cursor position  *)
(* the list of highlighted lines has exactly one entry, the cursor's line  *)
(* with no selection, when the editor is editable, and is empty when it is *)
(* read-only, whatever the list held before.                               *)
C20_HighlightRebuilt ==
    (ed.op = "init" \/ "cursorPositionChanged" \in ed.sig) =>
        ed.extra = IF ed.readOnly THEN <<>>
                   ELSE <<[line |-> ed.cursor.line, sel |-> FALSE]>>

C20_Witness ==
    /\ ed.op = "moveCursor"
    /\ ~ed.readOnly
    /\ ed.cursor = [line |-> 3, sel |-> TRUE]
    /\ ed.extra = <<[line |-> 3, sel |-> FALSE]>>

(* C13: in every reachable state each tab's button shows the close glyph   *)
(* when the tab is the hovered tab, the filled dot when it is not hovered  *)
(* and modified, and is hidden when it is not hovered and clean.           *)
C13_IndicatorPolicy ==
    \A i \in DOMAIN tabs :
        tabs[i].btnShow = (IF i = hovered_tab THEN "x"
                           ELSE IF tab_modified[i] THEN "dot"
                           ELSE "hidden")

(* C21: a click on the close button shown on a tab acts on that tab: the   *)
(* prompt, if any, is about that tab and the tab removed is that tab and   *)
(* no other, also when tabs to its left were closed since the button was   *)
(* created.                                                                *)
C21_ButtonClosesOwnTab ==
    [][last'.op = "close_tab" =>
        /\ "prompt" \in last'.ev => last'.index = last'.tab
        /\ "removed" \in last'.ev =>
              Ids(tabs') = Ids(tabs) \ {tabs[last'.tab].id}]_vars

(* C22: when Save is answered to close_tab's prompt the tab prompted for   *)
(* is removed only if its buffer was written to disk; when the save does   *)
(* not complete (chooser dismissed, or the write fails) the tab stays open *)
(* with its content and its modified flag still true.                      *)
C22_SaveThenCloseOnlyIfSaved ==
    [][(last'.op = "close_tab" /\ last'.reply = "Save") =>
        LET page == tabs[last'.index]
        IN  /\ page.id \notin Ids(tabs') => "wrote" \in last'.ev
            /\ "wrote" \notin last'.ev =>
                  \E j \in DOMAIN tabs' :
                      /\ tabs'[j].id = page.id
                      /\ tabs'[j].text = page.text
                      /\ tab_modified'[j]]_vars

(* C23: in every reachable state no two open tabs are associated with the  *)
(* same non-empty file path.                                               *)
C23_PathsDistinct ==
    \A i \in DOMAIN tabs : \A j \in DOMAIN tabs :
        (i # j /\ tab_file_paths[i] # None) => tab_file_paths[i] # tab_file_paths[j]

(* Where the layout puts the blocks from the first visible one on: a block *)
(* starts where the shown blocks before it end and covers LineHeight pixel *)
(* rows, none when it is hidden.                                           *)
Walked == gutter.first..(ed.blockCount - 1)

TopOf(b) ==
    gutter.offset + LineHeight * Cardinality({k \in gutter.first..(b - 1) : k \notin gutter.hidden})

RowsOf(b) == IF b \in gutter.hidden THEN {} ELSE TopOf(b)..(TopOf(b) + LineHeight - 1)

RectRows == gutter.rect.y..(gutter.rect.y + gutter.rect.height - 1)

DrawnBlocks == {d.block : d \in gutter.drawn}

(* what a paint event draws is drawn at the block's top, numbered index + 1; *)
(* the walk covers the blocks whose top is not below the rectangle's bottom  *)
WalkStops ==
    /\ \A d \in gutter.drawn : d.number = d.block + 1 /\ d.top = TopOf(d.block)
    /\ gutter.visited = {b \in Walked : TopOf(b) <= gutter.rect.y + gutter.rect.height - 1}

(* C24 as stated: for any repaint rectangle the paint event draws the      *)
(* number index + 1 for exactly the visible blocks, from the first visible *)
(* one on, whose pixel rows intersect the rectangle, and visits no block   *)
(* whose top lies below the rectangle's bottom.                            *)
C24_DrawsExactlyIntersecting ==
    gutter.op = "paint" =>
        /\ WalkStops
        /\ DrawnBlocks = {b \in Walked : RowsOf(b) \cap RectRows # {}}

(* C24 amended: the blocks drawn are exactly the visible blocks, from the  *)
(* first visible one on, whose pixel rows intersect the rectangle or end   *)
(* right above its top row; numbers, positions and the end of the walk are *)
(* as stated.                                                              *)
C24_DrawsIntersectingOrTouching ==
    gutter.op = "paint" =>
        /\ WalkStops
        /\ DrawnBlocks = {b \in Walked : \/ RowsOf(b) \cap RectRows # {}
                                          \/ /\ b \notin gutter.hidden
                                             /\ TopOf(b) + LineHeight = gutter.rect.y}

C24_Witness ==
    /\ gutter.op = "paint"
    /\ gutter.first = 1
    /\ gutter.hidden = {3}
    /\ gutter.rect = [y |-> 2, height |-> 2]
    /\ DrawnBlocks = {1, 2}
    /\ gutter.visited = {1, 2}
    /\ ed.blockCount = 5
====
